---- MODULE Spec2Model ----
(***************************************************************************)
(* Model of ai-mon: three collectors (claude, codex, antigravity) that     *)
(* scan on-disk telemetry into a ServiceUsage record, the sqlite snapshot  *)
(* cache of db.py and the HTTP handlers of app.py.                         *)
(*                                                                         *)
(* Encoding conventions                                                    *)
(*   - an optional value (None | x) is the set {} | {x};                   *)
(*   - a Python dict is a sequence of entries in insertion order;          *)
(*   - ISO dates are integers ordered as the date strings are ordered;     *)
(*   - instants are integers counted in hours;                             *)
(*   - a call either returns a value or raises: [ok, exc, usage].          *)
(***************************************************************************)
EXTENDS Integers, Sequences, FiniteSets, TLC

VARIABLES
    statsFile,    \* ~/.claude/stats-cache.json
    projects,     \* ~/.claude/projects transcript tree
    api,          \* outcome of the keychain lookup and of the usage API call
    sessions,     \* ~/.codex/sessions tree
    antigravity,  \* ~/.gemini/antigravity tree and ~/.gemini/tmp
    clock,        \* the wall clock, in hours
    cache,        \* the snapshots table: its rows in rowid order
    refreshed,    \* history: the summary the last committed refresh_all returned
    last          \* history: what the latest call did and returned

vars == <<statsFile, projects, api, sessions, antigravity, clock, cache, refreshed, last>>
fsVars == <<statsFile, projects, api, sessions, antigravity>>

----------------------------------------------------------------------------
(* Bounds of the model *)

MaxTicks == 2       \* clock advances
MaxItems == 3       \* days, session files, pb files and log lines on the disk
MaxLines == 3       \* transcript and session lines on the disk
MaxFiles == 2       \* files in one tree

Clock0 == 100 + 100
Dates == {1, 2}
Models == {"opus", "sonnet"}
TsValues == {31, 32, 195, 201}

----------------------------------------------------------------------------
(* Generic helpers *)

None == {}

Some(x) == {x}

TheOne(s) == CHOOSE x \in s : TRUE

Range(s) == {s[i] : i \in 1..Len(s)}

RECURSIVE SumSeq(_)
SumSeq(s) == IF s = <<>> THEN 0 ELSE Head(s) + SumSeq(Tail(s))

SetMin(S) == CHOOSE x \in S : \A y \in S : x <= y

SetMax(S) == CHOOSE x \in S : \A y \in S : x >= y

\* index of the first entry of dict d (a sequence) whose key field equals k, 0 if none
KeyIndex(d, k) ==
    IF \E i \in 1..Len(d) : d[i].key = k
    THEN SetMin({i \in 1..Len(d) : d[i].key = k})
    ELSE 0

----------------------------------------------------------------------------
(* models.py *)

DailyUsage(date) ==
    [date |-> date, message_count |-> 0, session_count |-> 0,
     tool_call_count |-> 0, token_count |-> 0, conversation_count |-> 0,
     file_size_bytes |-> 0]

ModelTokens(model) ==
    [model |-> model, input_tokens |-> 0, output_tokens |-> 0,
     cache_read_tokens |-> 0, cache_creation_tokens |-> 0]

RateLimit(name) ==
    [name |-> name, used_percent |-> 0, window_minutes |-> 0,
     resets_at |-> None, used_tokens |-> 0, model_breakdown |-> <<>>]

ServiceUsage(service) ==
    [service |-> service, daily_usage |-> <<>>, model_tokens |-> <<>>,
     total_messages |-> 0, total_sessions |-> 0, total_tokens |-> 0,
     hour_counts |-> <<>>, first_date |-> None, last_date |-> None,
     rate_limits |-> <<>>]

UsageSummary(services, last_refreshed) ==
    [services |-> services, last_refreshed |-> last_refreshed]

\* outcome of a call: a returned value or a raised exception
Returned(u) == [ok |-> TRUE, exc |-> "", usage |-> u]

Raised(e) == [ok |-> FALSE, exc |-> e, usage |-> ServiceUsage("")]

----------------------------------------------------------------------------
(* collectors/claude.py : the local rolling windows *)

FiveHours == 5

SevenDays == 168

FiveHourMinutes == 300

SevenDayMinutes == 10080

NewAcc ==
    [tokens_5h |-> 0, tokens_7d |-> 0, oldest_5h |-> None, oldest_7d |-> None,
     models_5h |-> <<>>, models_7d |-> <<>>]

LineTotal(u) == u.inp + u.out + u.cache_read + u.cache_create

\* acc = models.setdefault(model, zeros); acc[...] += ...
AccumulateModel(d, model, u) ==
    LET i == KeyIndex(d, model)
        e == IF i = 0
             THEN [key |-> model, input |-> 0, output |-> 0, cache_read |-> 0,
                   cache_create |-> 0, count |-> 0]
             ELSE d[i]
        e2 == [e EXCEPT !.input = @ + u.inp, !.output = @ + u.out,
                        !.cache_read = @ + u.cache_read,
                        !.cache_create = @ + u.cache_create, !.count = @ + 1]
    IN  IF i = 0 THEN Append(d, e2) ELSE [d EXCEPT ![i] = e2]

OlderOf(oldest, ts) == IF oldest = None \/ ts < TheOne(oldest) THEN Some(ts) ELSE oldest

\* the part of the loop body after the timestamp has been parsed
CountEntry(acc, line, now) ==
    LET total == LineTotal(line.usage)
        in5 == line.ts >= now - FiveHours
        a5 == IF in5
              THEN [acc EXCEPT !.tokens_5h = @ + total,
                               !.oldest_5h = OlderOf(@, line.ts),
                               !.models_5h = AccumulateModel(@, line.model, line.usage)]
              ELSE acc
    IN  [a5 EXCEPT !.tokens_7d = @ + total,
                   !.oldest_7d = OlderOf(@, line.ts),
                   !.models_7d = AccumulateModel(@, line.model, line.usage)]

\* one iteration of the line loop: ctl says how the iteration ended
\*   "next"  the loop goes on        "abort"  an exception the file-level except catches
\*   any other value: the name of an exception nothing in the collector catches
ScanLine(acc, line, now) ==
    CASE line.kind = "noassist"  -> [acc |-> acc, ctl |-> "next"]
      [] line.kind = "badjson"   -> [acc |-> acc, ctl |-> "abort"]
      [] line.kind = "nonobject" -> [acc |-> acc, ctl |-> "AttributeError"]
      [] line.kind = "othertype" -> [acc |-> acc, ctl |-> "next"]
      [] line.kind = "nots"      -> [acc |-> acc, ctl |-> "next"]
      [] line.kind = "badts"     -> [acc |-> acc, ctl |-> "abort"]
      [] line.kind = "naivets"   -> [acc |-> acc, ctl |-> "TypeError"]
      [] OTHER ->
            IF line.ts < now - SevenDays
            THEN [acc |-> acc, ctl |-> "next"]
            ELSE [acc |-> CountEntry(acc, line, now), ctl |-> "next"]

\* the line loop of one file: it ends at the first line that raises
RECURSIVE ScanLines(_, _, _)
ScanLinesRest(r, rest, now) == IF r.ctl = "next" THEN ScanLines(r.acc, rest, now) ELSE r

ScanLines(acc, lines, now) ==
    IF lines = <<>> THEN [acc |-> acc, ctl |-> "next"]
    ELSE ScanLinesRest(ScanLine(acc, Head(lines), now), Tail(lines), now)

\* except (json.JSONDecodeError, ValueError, OSError): continue
CatchInFile(r) == IF r.ctl = "abort" THEN [acc |-> r.acc, ctl |-> "next"] ELSE r

\* one iteration of the file loop
ScanFile(acc, f, now) ==
    CASE f.kind = "toolresults" -> [acc |-> acc, ctl |-> "next"]
      [] f.kind = "unreadable"  -> [acc |-> acc, ctl |-> "next"]
      [] OTHER -> CatchInFile(ScanLines(acc, f.lines, now))

RECURSIVE ScanFiles(_, _, _)
ScanFilesRest(r, rest, now) == IF r.ctl = "next" THEN ScanFiles(r.acc, rest, now) ELSE r

ScanFiles(acc, files, now) ==
    IF files = <<>> THEN [acc |-> acc, ctl |-> "next"]
    ELSE ScanFilesRest(ScanFile(acc, Head(files), now), Tail(files), now)

BreakdownTotal(m) ==
    m.input_tokens + m.output_tokens + m.cache_read_tokens + m.cache_creation_tokens

\* insert m into s, which is sorted by descending total, after every entry that is
\* not smaller: sorted(..., reverse=True) keeps the order of equal entries
RECURSIVE InsertDesc(_, _)
InsertDesc(s, m) ==
    IF s = <<>> THEN <<m>>
    ELSE IF BreakdownTotal(Head(s)) >= BreakdownTotal(m)
         THEN <<Head(s)>> \o InsertDesc(Tail(s), m)
         ELSE <<m>> \o s

RECURSIVE SortDesc(_)
SortDesc(s) ==
    IF s = <<>> THEN <<>> ELSE InsertDesc(SortDesc(SubSeq(s, 1, Len(s) - 1)), s[Len(s)])

_build_breakdown(d) ==
    SortDesc([i \in 1..Len(d) |->
        [model |-> d[i].key, input_tokens |-> d[i].input, output_tokens |-> d[i].output,
         cache_read_tokens |-> d[i].cache_read,
         cache_creation_tokens |-> d[i].cache_create]])

ResetAt(oldest, length) == IF oldest = None THEN None ELSE Some(TheOne(oldest) + length)

WindowLimits(acc) ==
    << [name |-> "5h window", used_percent |-> 0, window_minutes |-> FiveHourMinutes,
        resets_at |-> ResetAt(acc.oldest_5h, FiveHours), used_tokens |-> acc.tokens_5h,
        model_breakdown |-> _build_breakdown(acc.models_5h)],
       [name |-> "7d window", used_percent |-> 0, window_minutes |-> SevenDayMinutes,
        resets_at |-> ResetAt(acc.oldest_7d, SevenDays), used_tokens |-> acc.tokens_7d,
        model_breakdown |-> _build_breakdown(acc.models_7d)] >>

WindowResult(r) ==
    IF r.ctl = "next"
    THEN [ok |-> TRUE, exc |-> "", limits |-> WindowLimits(r.acc)]
    ELSE [ok |-> FALSE, exc |-> r.ctl, limits |-> <<>>]

\* returns [ok, exc, limits]
_compute_window_usage(proj, now) ==
    IF ~proj.exists THEN [ok |-> TRUE, exc |-> "", limits |-> <<>>]
    ELSE WindowResult(ScanFiles(NewAcc, proj.files, now))

----------------------------------------------------------------------------
(* collectors/claude.py : the remote usage query *)

\* _API_WINDOWS, in dict order: response key, display name, window minutes
_API_WINDOWS ==
    << [key |-> "five_hour", name |-> "5h window", window_min |-> FiveHourMinutes],
       [key |-> "seven_day", name |-> "7d window", window_min |-> SevenDayMinutes],
       [key |-> "seven_day_opus", name |-> "7d opus", window_min |-> SevenDayMinutes],
       [key |-> "seven_day_sonnet", name |-> "7d sonnet", window_min |-> SevenDayMinutes] >>

\* body.get(key) of the response: an entry is
\*   "absent"   the key is missing or null
\*   "nondict"  a value without .get (a number, a string, a list)
\*   "badutil"  an object whose utilization RateLimit cannot validate as a float
\*   "dict"     an object with utilization and resets_at
ApiEntryStep(limits, w, entry) ==
    CASE entry.shape = "absent"  -> [limits |-> limits, exc |-> ""]
      [] entry.shape = "nondict" -> [limits |-> limits, exc |-> "AttributeError"]
      [] entry.shape = "badutil" -> [limits |-> limits, exc |-> "ValidationError"]
      [] OTHER ->
            [limits |-> Append(limits,
                [name |-> w.name, used_percent |-> entry.utilization,
                 window_minutes |-> w.window_min, resets_at |-> entry.resets_at,
                 used_tokens |-> 0, model_breakdown |-> <<>>]),
             exc |-> ""]

RECURSIVE ApiLoop(_, _, _)
ApiLoopRest(r, i, windows) ==
    IF r.exc = "" THEN ApiLoop(r.limits, i, windows)
    ELSE [ok |-> FALSE, exc |-> r.exc, limits |-> <<>>]

ApiLoop(limits, i, windows) ==
    IF i > Len(_API_WINDOWS) THEN [ok |-> TRUE, exc |-> "", limits |-> limits]
    ELSE ApiLoopRest(ApiEntryStep(limits, _API_WINDOWS[i], windows[i]), i + 1, windows)

\* a.kind: "nocred" (keychain lookup failed or no token), "error" (an exception
\* inside the try block: timeout, network error, non-200, body not JSON),
\* "nonobject" (a 200 whose JSON body is not an object), "body" (a JSON object)
_query_usage_api(a) ==
    CASE a.kind = "nocred"    -> [ok |-> TRUE, exc |-> "", limits |-> <<>>]
      [] a.kind = "error"     -> [ok |-> TRUE, exc |-> "", limits |-> <<>>]
      [] a.kind = "nonobject" -> [ok |-> FALSE, exc |-> "AttributeError", limits |-> <<>>]
      [] OTHER -> ApiLoop(<<>>, 1, a.windows)

----------------------------------------------------------------------------
(* collectors/claude.py : collect *)

\* api_by_name[name]: of several remote windows with one name the dict keeps the last
ApiByName(api_limits, name) ==
    LET S == {i \in 1..Len(api_limits) : api_limits[i].name = name}
    IN  IF S = {} THEN None ELSE Some(api_limits[SetMax(S)])

\* the merge of one local window as it would be if the remote figures were dropped
MergeLocal_keepLocal(jrl, api_limits) == jrl

MergeLocal(jrl, api_limits) ==
    LET a == ApiByName(api_limits, jrl.name)
    IN  IF a # None
        THEN [name |-> jrl.name, used_percent |-> TheOne(a).used_percent,
              window_minutes |-> jrl.window_minutes, resets_at |-> TheOne(a).resets_at,
              used_tokens |-> jrl.used_tokens, model_breakdown |-> jrl.model_breakdown]
        ELSE jrl

MergeLimits(jsonl_limits, api_limits) ==
    IF api_limits # <<>>
    THEN LET seen_names == {jsonl_limits[i].name : i \in 1..Len(jsonl_limits)}
         IN  [i \in 1..Len(jsonl_limits) |-> MergeLocal(jsonl_limits[i], api_limits)]
             \o SelectSeq(api_limits, LAMBDA arl : arl.name \notin seen_names)
    ELSE jsonl_limits

\* token_by_date.get(date, 0): a later dailyModelTokens entry of a date overwrites
TokenByDate(dmt, date) ==
    LET S == {i \in 1..Len(dmt) : dmt[i].date = date}
    IN  IF S = {} THEN 0 ELSE dmt[SetMax(S)].tokens

ClaudeDaily(data) ==
    [i \in 1..Len(data.dailyActivity) |->
        [DailyUsage(data.dailyActivity[i].date) EXCEPT
            !.message_count = data.dailyActivity[i].messageCount,
            !.session_count = data.dailyActivity[i].sessionCount,
            !.tool_call_count = data.dailyActivity[i].toolCallCount,
            !.token_count = TokenByDate(data.dailyModelTokens, data.dailyActivity[i].date)]]

ClaudeModelTokens(data) ==
    [i \in 1..Len(data.modelUsage) |->
        [model |-> data.modelUsage[i].key,
         input_tokens |-> data.modelUsage[i].inputTokens,
         output_tokens |-> data.modelUsage[i].outputTokens,
         cache_read_tokens |-> data.modelUsage[i].cacheReadInputTokens,
         cache_creation_tokens |-> data.modelUsage[i].cacheCreationInputTokens]]

DatesOf(daily_usage) == {daily_usage[i].date : i \in 1..Len(daily_usage)}

FirstDate(daily_usage) ==
    IF daily_usage = <<>> THEN None ELSE Some(SetMin(DatesOf(daily_usage)))

LastDate(daily_usage) ==
    IF daily_usage = <<>> THEN None ELSE Some(SetMax(DatesOf(daily_usage)))

InputPlusOutput(model_tokens) ==
    SumSeq([i \in 1..Len(model_tokens) |->
               model_tokens[i].input_tokens + model_tokens[i].output_tokens])

ClaudeRecord(data, daily_usage, model_tokens, rate_limits) ==
    [service |-> "claude", daily_usage |-> daily_usage,
     model_tokens |-> model_tokens,
     total_messages |-> data.totalMessages,
     total_sessions |-> data.totalSessions,
     total_tokens |-> InputPlusOutput(model_tokens),
     hour_counts |-> data.hourCounts,
     first_date |-> FirstDate(daily_usage), last_date |-> LastDate(daily_usage),
     rate_limits |-> rate_limits]

ClaudeUsage(data, rate_limits) ==
    ClaudeRecord(data, ClaudeDaily(data), ClaudeModelTokens(data), rate_limits)

\* collect() once the stats file is loaded: the local windows are computed first,
\* the remote query runs only when they did not raise
ClaudeLimits(data, jsonl, remote) ==
    IF ~jsonl.ok THEN Raised(jsonl.exc)
    ELSE IF ~remote.ok THEN Raised(remote.exc)
    ELSE Returned(ClaudeUsage(data, MergeLimits(jsonl.limits, remote.limits)))

\* stats.kind: "missing", "corrupt" (not JSON: json.loads raises) or "ok"
claude_collect(stats, proj, a, now) ==
    IF stats.kind = "missing" THEN Returned(ServiceUsage("claude"))
    ELSE IF stats.kind = "corrupt" THEN Raised("JSONDecodeError")
    ELSE ClaudeLimits(stats.data, _compute_window_usage(proj, now), _query_usage_api(a))

----------------------------------------------------------------------------
(* collectors/codex.py *)

\* insert du into s, sorted ascending by date, after the entries that are not greater
RECURSIVE InsertByDate(_, _)
InsertByDate(s, du) ==
    IF s = <<>> THEN <<du>>
    ELSE IF Head(s).date <= du.date
         THEN <<Head(s)>> \o InsertByDate(Tail(s), du)
         ELSE <<du>> \o s

\* sorted(daily.values(), key=lambda d: d.date)
RECURSIVE SortByDate(_)
SortByDate(s) ==
    IF s = <<>> THEN <<>>
    ELSE InsertByDate(SortByDate(SubSeq(s, 1, Len(s) - 1)), s[Len(s)])

DateIndex(daily, date) ==
    IF \E i \in 1..Len(daily) : daily[i].date = date
    THEN SetMin({i \in 1..Len(daily) : daily[i].date = date})
    ELSE 0

\* if date_str not in daily: daily[date_str] = DailyUsage(date=date_str)
EnsureDay(daily, date) ==
    IF DateIndex(daily, date) = 0 THEN Append(daily, DailyUsage(date)) ELSE daily

\* counts[key] += n on a defaultdict(int)
CountInto(counts, key, n) ==
    LET i == KeyIndex(counts, key)
    IN  IF i = 0 THEN Append(counts, [key |-> key, count |-> n])
        ELSE [counts EXCEPT ![i].count = @ + n]

\* model_token_map[model]["input"] += inp; ["output"] += out
CodexModelAdd(m, model, inp, out) ==
    LET i == KeyIndex(m, model)
    IN  IF i = 0 THEN Append(m, [key |-> model, input |-> inp, output |-> out])
        ELSE [m EXCEPT ![i].input = @ + inp, ![i].output = @ + out]

CodexNew ==
    [daily |-> <<>>, total_messages |-> 0, total_sessions |-> 0, total_input |-> 0,
     total_output |-> 0, model_token_map |-> <<>>, hour_counts |-> <<>>,
     latest_rate_limits |-> None, latest_rate_ts |-> 0,
     session_messages |-> 0, session_tokens |-> 0, model_name |-> None]

\* the token_count branch of the line loop; the empty timestamp string is 0
CodexTokenCount(st, line) ==
    LET s1 == [st EXCEPT !.session_tokens = @ + line.inp + line.out,
                         !.total_input = @ + line.inp,
                         !.total_output = @ + line.out]
        s2 == IF st.model_name # None
              THEN [s1 EXCEPT !.model_token_map =
                        CodexModelAdd(@, TheOne(st.model_name), line.inp, line.out)]
              ELSE s1
    IN  IF line.rl # None /\ line.ts > st.latest_rate_ts
        THEN [s2 EXCEPT !.latest_rate_ts = line.ts, !.latest_rate_limits = line.rl]
        ELSE s2

\* one iteration of the line loop: [st, exc]
CodexLine(st, line) ==
    CASE line.kind = "blank"     -> [st |-> st, exc |-> ""]
      [] line.kind = "badjson"   -> [st |-> st, exc |-> ""]
      [] line.kind = "nonobject" -> [st |-> st, exc |-> "AttributeError"]
      [] line.kind = "session_meta" ->
            [st |-> IF line.hour # None
                    THEN [st EXCEPT !.hour_counts = CountInto(@, TheOne(line.hour), 1)]
                    ELSE st,
             exc |-> ""]
      [] line.kind = "turn_context" ->
            [st |-> IF line.model # None THEN [st EXCEPT !.model_name = line.model] ELSE st,
             exc |-> ""]
      [] line.kind = "user_message" ->
            [st |-> [st EXCEPT !.session_messages = @ + 1], exc |-> ""]
      [] line.kind = "token_count" -> [st |-> CodexTokenCount(st, line), exc |-> ""]
      [] OTHER -> [st |-> st, exc |-> ""]

RECURSIVE CodexLines(_, _)
CodexLinesRest(r, rest) == IF r.exc = "" THEN CodexLines(r.st, rest) ELSE r

CodexLines(st, lines) ==
    IF lines = <<>> THEN [st |-> st, exc |-> ""]
    ELSE CodexLinesRest(CodexLine(st, Head(lines)), Tail(lines))

\* the start of one iteration of the file loop
CodexOpen(st, date) ==
    [st EXCEPT !.daily = EnsureDay(@, date),
               !.session_messages = 0, !.session_tokens = 0,
               !.total_sessions = @ + 1, !.model_name = None]

\* the statements after the line loop, for the day at index i of daily
CodexCloseAt(st, i) ==
    [st EXCEPT !.total_messages = @ + st.session_messages,
               !.daily[i].message_count = @ + st.session_messages,
               !.daily[i].session_count = @ + 1,
               !.daily[i].token_count = @ + st.session_tokens]

CodexClose(r, date) ==
    IF r.exc # "" THEN r
    ELSE [st |-> CodexCloseAt(r.st, DateIndex(r.st.daily, date)), exc |-> ""]

\* one iteration of the file loop; f.depth_ok is len(parts) >= 3
CodexFile(st, f) ==
    IF ~f.depth_ok THEN [st |-> st, exc |-> ""]
    ELSE CodexClose(CodexLines(CodexOpen(st, f.date), f.lines), f.date)

RECURSIVE CodexFiles(_, _)
CodexFilesRest(r, rest) == IF r.exc = "" THEN CodexFiles(r.st, rest) ELSE r

CodexFiles(st, files) ==
    IF files = <<>> THEN [st |-> st, exc |-> ""]
    ELSE CodexFilesRest(CodexFile(st, Head(files)), Tail(files))

CodexWindow(label, w) ==
    [name |-> label, used_percent |-> w.used_percent,
     window_minutes |-> w.window_minutes, resets_at |-> w.resets_at,
     used_tokens |-> 0, model_breakdown |-> <<>>]

\* a payload is [primary, secondary], each {} (missing or empty) or {window}
CodexRateLimits(latest) ==
    IF latest = None THEN <<>>
    ELSE LET rl == TheOne(latest)
         IN  (IF rl.primary # None
              THEN <<CodexWindow("5h window", TheOne(rl.primary))>> ELSE <<>>)
             \o (IF rl.secondary # None
                 THEN <<CodexWindow("7d window", TheOne(rl.secondary))>> ELSE <<>>)

CodexRecord(st, daily_usage) ==
        [service |-> "codex", daily_usage |-> daily_usage,
         model_tokens |-> [i \in 1..Len(st.model_token_map) |->
             [ModelTokens(st.model_token_map[i].key) EXCEPT
                 !.input_tokens = st.model_token_map[i].input,
                 !.output_tokens = st.model_token_map[i].output]],
         total_messages |-> st.total_messages,
         total_sessions |-> st.total_sessions,
         total_tokens |-> st.total_input + st.total_output,
         hour_counts |-> st.hour_counts,
         first_date |-> FirstDate(daily_usage), last_date |-> LastDate(daily_usage),
         rate_limits |-> CodexRateLimits(st.latest_rate_limits)]

CodexUsage(st) == CodexRecord(st, SortByDate(st.daily))

CodexResult(r) == IF r.exc # "" THEN Raised(r.exc) ELSE Returned(CodexUsage(r.st))

\* s.files is sorted(SESSIONS_DIR.rglob("*.jsonl")): the files in path order
codex_collect(s) ==
    IF ~s.exists THEN Returned(ServiceUsage("codex"))
    ELSE CodexResult(CodexFiles(CodexNew, s.files))

----------------------------------------------------------------------------
(* collectors/antigravity.py *)

\* the gemini model names of the model, in the order sorted() gives them
GeminiModels == <<"gemini-2.5-flash", "gemini-2.5-pro">>

SessionStatsAdd(stats, model, t) ==
    LET i == KeyIndex(stats, model)
        e == IF i = 0
             THEN [key |-> model, input |-> 0, output |-> 0, cached |-> 0,
                   thoughts |-> 0, requests |-> 0]
             ELSE stats[i]
        e2 == [e EXCEPT !.input = @ + t.input, !.output = @ + t.output,
                        !.cached = @ + t.cached, !.thoughts = @ + t.thoughts,
                        !.requests = @ + 1]
    IN  IF i = 0 THEN Append(stats, e2) ELSE [stats EXCEPT ![i] = e2]

RECURSIVE SessionMessages(_, _)
SessionMessages(stats, msgs) ==
    IF msgs = <<>> THEN stats
    ELSE LET m == Head(msgs)
         IN  SessionMessages(
                 IF m.model # None /\ m.tokens # None
                 THEN SessionStatsAdd(stats, TheOne(m.model), TheOne(m.tokens))
                 ELSE stats,
                 Tail(msgs))

\* a session file that is not JSON (f.ok = FALSE) is skipped
RECURSIVE SessionFiles(_, _)
SessionFiles(stats, files) ==
    IF files = <<>> THEN stats
    ELSE SessionFiles(
             IF Head(files).ok THEN SessionMessages(stats, Head(files).messages) ELSE stats,
             Tail(files))

_parse_session_jsons(tmp) ==
    IF ~tmp.exists THEN <<>> ELSE SessionFiles(<<>>, tmp.files)

\* one log line: line.model is the _MODEL_RE match, line.planner the _PLANNER_RE
\* match, line.date the date the _LOG_TS_RE prefix gives in the current year
DaemonLine(st, line) ==
    LET cm == IF line.model # None THEN line.model ELSE st.current_model
        s1 == [st EXCEPT !.current_model = cm]
    IN  IF ~line.planner THEN s1
        ELSE LET s2 == IF line.date # None
                       THEN [s1 EXCEPT !.daily_requests =
                                 CountInto(@, TheOne(line.date), 1)]
                       ELSE s1
             IN  IF cm # None
                 THEN [s2 EXCEPT !.model_requests = CountInto(@, TheOne(cm), 1)]
                 ELSE s2

RECURSIVE DaemonLines(_, _)
DaemonLines(st, lines) ==
    IF lines = <<>> THEN st ELSE DaemonLines(DaemonLine(st, Head(lines)), Tail(lines))

RECURSIVE DaemonFiles(_, _)
DaemonFiles(st, files) ==
    IF files = <<>> THEN st
    ELSE DaemonFiles(DaemonLines([st EXCEPT !.current_model = None], Head(files)),
                     Tail(files))

_parse_daemon_logs(daemon) ==
    LET st0 == [model_requests |-> <<>>, daily_requests |-> <<>>, current_model |-> None]
    IN  IF ~daemon.exists THEN st0 ELSE DaemonFiles(st0, daemon.logs)

\* the *.pb loop over one directory
RECURSIVE PbFiles(_, _)
PbFiles(st, pbs) ==
    IF pbs = <<>> THEN st
    ELSE LET pb == Head(pbs)
             d == EnsureDay(st.daily, pb.date)
             i == DateIndex(d, pb.date)
         IN  PbFiles([st EXCEPT
                 !.daily = [d EXCEPT ![i].conversation_count = @ + 1,
                                     ![i].file_size_bytes = @ + pb.size],
                 !.total_conversations = @ + 1,
                 !.total_size = @ + pb.size,
                 !.hour_counts = CountInto(@, pb.hour, 1)], Tail(pbs))

\* for date_str, count in daily_requests.items(): daily[date_str].message_count += count
RECURSIVE MergeRequests(_, _)
MergeRequests(daily, reqs) ==
    IF reqs = <<>> THEN daily
    ELSE LET d == EnsureDay(daily, Head(reqs).key)
             i == DateIndex(d, Head(reqs).key)
         IN  MergeRequests([d EXCEPT ![i].message_count = @ + Head(reqs).count],
                           Tail(reqs))

DictGet(d, k, field, default) ==
    IF KeyIndex(d, k) = 0 THEN default ELSE d[KeyIndex(d, k)][field]

DictKeys(d) == {d[i].key : i \in 1..Len(d)}

AntModelTokens(sess, reqs) ==
    LET present == SelectSeq(GeminiModels,
                             LAMBDA m : m \in DictKeys(sess) \cup DictKeys(reqs))
    IN  [i \in 1..Len(present) |->
            [model |-> present[i],
             input_tokens |-> DictGet(sess, present[i], "input", 0),
             output_tokens |-> DictGet(sess, present[i], "output", 0),
             cache_read_tokens |-> DictGet(sess, present[i], "cached", 0),
             cache_creation_tokens |-> DictGet(sess, present[i], "thoughts", 0)]]

AntRecord(st, dm, daily_usage, model_tokens) ==
    [service |-> "antigravity", daily_usage |-> daily_usage,
     model_tokens |-> model_tokens,
     total_messages |-> st.total_conversations,
     total_sessions |-> st.total_conversations,
     total_tokens |-> IF InputPlusOutput(model_tokens) # 0
                      THEN InputPlusOutput(model_tokens)
                      ELSE SumSeq([i \in 1..Len(dm.model_requests) |->
                               dm.model_requests[i].count]),
     hour_counts |-> st.hour_counts,
     first_date |-> FirstDate(daily_usage), last_date |-> LastDate(daily_usage),
     rate_limits |-> <<>>]

AntUsage(st, sess, dm) ==
    AntRecord(st, dm, SortByDate(MergeRequests(st.daily, dm.daily_requests)),
              AntModelTokens(sess, dm.model_requests))

\* for scan_dir in dirs: the directories that exist, conversations first
ScanDir(st, dir) == IF dir.exists THEN PbFiles(st, dir.pbs) ELSE st

AntNew == [daily |-> <<>>, total_conversations |-> 0, total_size |-> 0, hour_counts |-> <<>>]

\* collect as it would be without the test of BASE_DIR
antigravity_collect_unguarded(a) ==
    Returned(AntUsage(ScanDir(ScanDir(AntNew, a.conv), a.implicit),
                      _parse_session_jsons(a.tmp), _parse_daemon_logs(a.daemon)))

antigravity_collect(a) ==
    IF ~a.exists THEN Returned(ServiceUsage("antigravity"))
    ELSE Returned(AntUsage(ScanDir(ScanDir(AntNew, a.conv), a.implicit),
                           _parse_session_jsons(a.tmp), _parse_daemon_logs(a.daemon)))

----------------------------------------------------------------------------
(* db.py *)

Services == {"claude", "codex", "antigravity"}

\* _COLLECTORS, in dict order
_COLLECTORS == <<"claude", "codex", "antigravity">>

\* _COLLECTORS[name]() against the present filesystem and clock
Collect(name) ==
    CASE name = "claude" -> claude_collect(statsFile, projects, api, clock)
      [] name = "codex"  -> codex_collect(sessions)
      [] OTHER           -> antigravity_collect(antigravity)

\* usage.model_dump_json() and ServiceUsage.model_validate_json(data): the stored
\* text is a JSON document holding the fields of the record
model_dump_json(u) == [json |-> u]

model_validate_json(d) == d.json

\* INSERT OR REPLACE INTO snapshots: the row of the same service is deleted and the
\* new row is added at the end of the table (a fresh rowid)
InsertOrReplace(table, row) ==
    Append(SelectSeq(table, LAMBDA r : r.service # row.service), row)

\* the timestamp as it would be if it were read again for every row
RowStamp_perRow(now, i) == now + i - 1

\* the timestamp refresh_all binds to the i-th collector's row
RowStamp(now, i) == now

\* the loop of refresh_all from the i-th collector on: table is the connection's
\* uncommitted view, services the list built so far, calls the collectors invoked
RECURSIVE RefreshLoop(_, _, _, _, _)
\* the loop body for the i-th collector, whose call ended as r
RefreshStep(r, i, table, services, calls, now) ==
    IF ~r.ok
    THEN [ok |-> FALSE, exc |-> r.exc, table |-> table,
          services |-> services, calls |-> Append(calls, _COLLECTORS[i])]
    ELSE RefreshLoop(i + 1,
             InsertOrReplace(table,
                 [service |-> _COLLECTORS[i], data |-> model_dump_json(r.usage),
                  updated_at |-> RowStamp(now, i)]),
             Append(services, r.usage), Append(calls, _COLLECTORS[i]), now)

RefreshLoop(i, table, services, calls, now) ==
    IF i > Len(_COLLECTORS)
    THEN [ok |-> TRUE, exc |-> "", table |-> table, services |-> services,
          calls |-> calls]
    ELSE RefreshStep(Collect(_COLLECTORS[i]), i, table, services, calls, now)

\* commit as it would be on a connection in autocommit mode: every insert made before
\* a collector raised stays
Commit_perStatement(r, table, now) ==
    [ok |-> r.ok, exc |-> r.exc,
     table |-> r.table,
     summary |-> IF r.ok THEN Some(UsageSummary(r.services, Some(now))) ELSE None,
     calls |-> r.calls, refreshes |-> 1]

\* commit() is reached only when no collector raised; otherwise the connection is
\* dropped with its transaction open and sqlite rolls the inserts back
Commit(r, table, now) ==
    [ok |-> r.ok, exc |-> r.exc,
     table |-> IF r.ok THEN r.table ELSE table,
     summary |-> IF r.ok THEN Some(UsageSummary(r.services, Some(now))) ELSE None,
     calls |-> r.calls, refreshes |-> 1]

refresh_all(table, now) == Commit(RefreshLoop(1, table, <<>>, <<>>, now), table, now)

RowStamps(table) == {table[i].updated_at : i \in 1..Len(table)}

\* get_summary as it would be if it rescanned on every call
get_summary_rescan(table, now) == refresh_all(table, now)

get_summary(table, now) ==
    IF table = <<>> THEN refresh_all(table, now)
    ELSE [ok |-> TRUE, exc |-> "", table |-> table,
          summary |-> Some(UsageSummary(
              [i \in 1..Len(table) |-> model_validate_json(table[i].data)],
              Some(SetMax(RowStamps(table))))),
          calls |-> <<>>, refreshes |-> 0]

\* the on-demand collection as it would be if it stored what it collected
CollectFresh_stored(r, name, table, now) ==
    [ok |-> r.ok, exc |-> r.exc, ret |-> IF r.ok THEN Some(r.usage) ELSE None,
     calls |-> <<name>>,
     table |-> IF r.ok
               THEN InsertOrReplace(table,
                        [service |-> name, data |-> model_dump_json(r.usage),
                         updated_at |-> now])
               ELSE table]

\* return _COLLECTORS[name](): the result is handed back, nothing is stored
CollectFresh(r, name, table, now) ==
    [ok |-> r.ok, exc |-> r.exc, ret |-> IF r.ok THEN Some(r.usage) ELSE None,
     calls |-> <<name>>, table |-> table]

ServiceRows(table, name) == SelectSeq(table, LAMBDA r : r.service = name)

\* get_service as it would be without the test name in _COLLECTORS: the lookup
\* _COLLECTORS[name] of an unknown name raises
get_service_unguarded(table, name, now) ==
    IF ServiceRows(table, name) # <<>>
    THEN [ok |-> TRUE, exc |-> "",
          ret |-> Some(model_validate_json(ServiceRows(table, name)[1].data)),
          calls |-> <<>>, table |-> table]
    ELSE IF name \in Services THEN CollectFresh(Collect(name), name, table, now)
    ELSE [ok |-> FALSE, exc |-> "KeyError", ret |-> None, calls |-> <<>>, table |-> table]

\* get_service(name): ret is {} for None, table the snapshots table it leaves
get_service(table, name, now) ==
    IF ServiceRows(table, name) # <<>>
    THEN [ok |-> TRUE, exc |-> "",
          ret |-> Some(model_validate_json(ServiceRows(table, name)[1].data)),
          calls |-> <<>>, table |-> table]
    ELSE IF name \in Services THEN CollectFresh(Collect(name), name, table, now)
    ELSE [ok |-> TRUE, exc |-> "", ret |-> None, calls |-> <<>>, table |-> table]

----------------------------------------------------------------------------
(* Filesystem contents the model draws its inputs from *)

EmptyData ==
    [dailyActivity |-> <<>>, dailyModelTokens |-> <<>>, modelUsage |-> <<>>,
     hourCounts |-> <<>>, totalMessages |-> 0, totalSessions |-> 0]

NoStats == [kind |-> "missing", data |-> EmptyData]

CorruptStats == [kind |-> "corrupt", data |-> EmptyData]

Day(date, n) == [date |-> date, messageCount |-> n, sessionCount |-> 1, toolCallCount |-> 0]

StatsWith(days) ==
    [kind |-> "ok",
     data |-> [dailyActivity |-> days,
               dailyModelTokens |-> <<[date |-> 1, tokens |-> 150]>>,
               modelUsage |-> <<[key |-> "opus", inputTokens |-> 100, outputTokens |-> 50,
                                 cacheReadInputTokens |-> 0,
                                 cacheCreationInputTokens |-> 0]>>,
               hourCounts |-> <<[key |-> 9, count |-> 5]>>,
               totalMessages |-> 5, totalSessions |-> 1]]

SampleStats == StatsWith(<<Day(1, 5)>>)

TokenUse == [inp |-> 1, out |-> 2, cache_read |-> 4, cache_create |-> 8]

TLine(kind, ts, model) == [kind |-> kind, ts |-> ts, usage |-> TokenUse, model |-> model]

Transcript(lines) == [kind |-> "jsonl", lines |-> lines]

NoProjects == [exists |-> FALSE, files |-> <<>>]

SampleProjects ==
    [exists |-> TRUE,
     files |-> <<Transcript(<<TLine("ok", 100, "opus"), TLine("ok", 198, "sonnet")>>)>>]

Absent == [shape |-> "absent", utilization |-> 0, resets_at |-> None]

NoApi == [kind |-> "nocred", windows |-> <<Absent, Absent, Absent, Absent>>]

CLine(kind) ==
    [kind |-> kind, hour |-> None, model |-> None, inp |-> 0, out |-> 0,
     rl |-> None, ts |-> 0]

Session(date, lines) == [depth_ok |-> TRUE, date |-> date, lines |-> lines]

NoSessions == [exists |-> FALSE, files |-> <<>>]

SampleSessions ==
    [exists |-> TRUE,
     files |-> <<Session(2, <<CLine("user_message"),
                              [CLine("token_count") EXCEPT !.inp = 7, !.out = 3]>>)>>]

BrokenSessions ==
    [exists |-> TRUE, files |-> <<Session(2, <<CLine("nonobject")>>)>>]

NoDir == [exists |-> FALSE, pbs |-> <<>>]

NoTmp == [exists |-> FALSE, files |-> <<>>]

NoDaemon == [exists |-> FALSE, logs |-> <<>>]

NoAntigravity ==
    [exists |-> FALSE, conv |-> NoDir, implicit |-> NoDir, tmp |-> NoTmp,
     daemon |-> NoDaemon]

Pb(date, size) == [date |-> date, hour |-> 9, size |-> size]

SampleAntigravity ==
    [NoAntigravity EXCEPT !.exists = TRUE,
                          !.conv = [exists |-> TRUE, pbs |-> <<Pb(3, 10)>>]]

ClaudeSamples ==
    { [stats |-> NoStats, projects |-> NoProjects],
      [stats |-> CorruptStats, projects |-> NoProjects],
      [stats |-> SampleStats, projects |-> SampleProjects] }

CodexSamples == {NoSessions, SampleSessions, BrokenSessions}

AntigravitySamples == {NoAntigravity, SampleAntigravity}

----------------------------------------------------------------------------
(* The observation of the latest call *)

Idle ==
    [op |-> "idle", arg |-> "", ok |-> TRUE, exc |-> "", calls |-> <<>>,
     refreshes |-> 0, pre |-> <<>>, summary |-> None, ret |-> None, status |-> 0]

Init ==
    /\ statsFile = NoStats
    /\ projects = NoProjects
    /\ api = NoApi
    /\ sessions = NoSessions
    /\ antigravity = NoAntigravity
    /\ clock = Clock0
    /\ cache = <<>>
    /\ refreshed = None
    /\ last = Idle

----------------------------------------------------------------------------
(* The environment of the store: other programs replace the telemetry, time passes *)

InstallClaude ==
    /\ \E c \in ClaudeSamples : statsFile' = c.stats /\ projects' = c.projects
    /\ last' = Idle
    /\ UNCHANGED <<api, sessions, antigravity, clock, cache, refreshed>>

InstallCodex ==
    /\ \E s \in CodexSamples : sessions' = s
    /\ last' = Idle
    /\ UNCHANGED <<statsFile, projects, api, antigravity, clock, cache, refreshed>>

InstallAntigravity ==
    /\ \E a \in AntigravitySamples : antigravity' = a
    /\ last' = Idle
    /\ UNCHANGED <<statsFile, projects, api, sessions, clock, cache, refreshed>>

Tick ==
    /\ clock < Clock0 + MaxTicks
    /\ clock' = clock + 1
    /\ last' = Idle
    /\ UNCHANGED <<fsVars, cache, refreshed>>

----------------------------------------------------------------------------
(* app.py : the handlers *)

\* GET /api/refresh, and the startup hook: db.refresh_all()
\* the effect of a call that returns a summary and ended as r
SummaryCall(op, r) ==
    /\ cache' = r.table
    /\ refreshed' = IF r.ok /\ r.refreshes > 0 THEN r.summary ELSE refreshed
    /\ last' = [op |-> op, arg |-> "", ok |-> r.ok, exc |-> r.exc,
                calls |-> r.calls, refreshes |-> r.refreshes, pre |-> cache,
                summary |-> r.summary, ret |-> None,
                status |-> IF r.ok THEN 200 ELSE 500]
    /\ UNCHANGED <<fsVars, clock>>

RefreshAll == SummaryCall("refresh_all", refresh_all(cache, clock))

\* GET /api/summary: db.get_summary()
GetSummary == SummaryCall("get_summary", get_summary(cache, clock))

\* the service names requests carry: the known ones and two that are not
Names == Services \cup {"gemini", "Claude"}

\* GET /api/usage/{service}: db.get_service(service), 404 when it returns None
UsageCall(service, r) ==
    /\ last' = [op |-> "usage", arg |-> service, ok |-> r.ok, exc |-> r.exc,
                calls |-> r.calls, refreshes |-> 0, pre |-> cache,
                summary |-> None, ret |-> r.ret,
                status |-> IF ~r.ok THEN 500
                           ELSE IF r.ret = None THEN 404 ELSE 200]
    /\ cache' = r.table
    /\ UNCHANGED <<fsVars, clock, refreshed>>

usage(service) == UsageCall(service, get_service(cache, service, clock))

Usage == \E service \in Names : usage(service)

Next ==
    \/ InstallClaude
    \/ InstallCodex
    \/ InstallAntigravity
    \/ Tick
    \/ RefreshAll
    \/ GetSummary
    \/ Usage

Spec == Init /\ [][Next]_vars

----------------------------------------------------------------------------
(* Claims about the store and the handlers *)

\* what the collectors return against the present filesystem, in _COLLECTORS order
FreshUsages == [i \in 1..Len(_COLLECTORS) |-> Collect(_COLLECTORS[i]).usage]

ColdRefresh == last.op \in {"refresh_all", "get_summary"} /\ last.pre = <<>>

OneRowPerService ==
    /\ Len(cache) = Cardinality(Services)
    /\ {cache[i].service : i \in 1..Len(cache)} = Services

\* C1: a refresh-all on a cache without rows leaves exactly one row for each known
\* service and returns a summary holding the result of every collector.
ClaimC1 ==
    ColdRefresh =>
        /\ OneRowPerService
        /\ last.summary # None
        /\ TheOne(last.summary).services = FreshUsages

\* C2: get_summary on a cache with rows invokes no collector, leaves the rows as they
\* are and returns the snapshots the last refresh stored; on a cache without rows it
\* runs refresh_all once, each collector being invoked at most once and in order.
ClaimC2 ==
    last.op = "get_summary" =>
        IF last.pre # <<>>
        THEN /\ last.calls = <<>>
             /\ last.refreshes = 0
             /\ cache = last.pre
             /\ last.ok
             /\ last.summary # None
             /\ TheOne(last.summary).services = TheOne(refreshed).services
        ELSE /\ last.refreshes = 1
             /\ last.calls # <<>>
             /\ last.calls = SubSeq(_COLLECTORS, 1, Len(last.calls))

\* a get_summary served from rows that differ from what a scan would find now
WitnessC2 ==
    /\ last.op = "get_summary"
    /\ last.pre # <<>>
    /\ last.summary # None
    /\ \E i \in 1..Len(_COLLECTORS) :
           Collect(_COLLECTORS[i]) # Returned(TheOne(last.summary).services[i])

UncachedKnown ==
    /\ last.op = "usage"
    /\ last.arg \in Services
    /\ ServiceRows(last.pre, last.arg) = <<>>

\* C3: get_service for a known service without a row hands back what the collector
\* returns (or raises what it raises) and the snapshots table is as before the call.
ClaimC3 ==
    UncachedKnown =>
        /\ last.calls = <<last.arg>>
        /\ last.ok = Collect(last.arg).ok
        /\ last.ok => last.ret = Some(Collect(last.arg).usage)
        /\ cache = last.pre

\* an on-demand collection that found data
WitnessC3 ==
    /\ UncachedKnown
    /\ last.ok
    /\ last.ret # Some(ServiceUsage(last.arg))

\* C4: a request for a name that is no known service ends 404: get_service returns
\* None, no collector runs, nothing is raised and the table is as before.
ClaimC4 ==
    (last.op = "usage" /\ last.arg \notin Services) =>
        /\ last.status = 404
        /\ last.ret = None
        /\ last.calls = <<>>
        /\ last.ok
        /\ cache = last.pre

\* an unknown name asked of a populated cache
WitnessC4 == last.op = "usage" /\ last.arg \notin Services /\ last.pre # <<>>

\* C5: a refresh_all that completes has invoked every collector and stored every
\* result under one timestamp, the last_refreshed of its summary; the rows carry the
\* timestamp of the last committed refresh, and get_summary reports it.
ClaimC5 ==
    /\ (last.op = "refresh_all" /\ last.ok) =>
           /\ last.calls = _COLLECTORS
           /\ [i \in 1..Len(cache) |-> cache[i].service] = _COLLECTORS
           /\ [i \in 1..Len(cache) |-> cache[i].data] =
                  [i \in 1..Len(_COLLECTORS) |->
                      model_dump_json(TheOne(last.summary).services[i])]
           /\ RowStamps(cache) = TheOne(last.summary).last_refreshed
    /\ cache # <<>> => RowStamps(cache) = TheOne(refreshed).last_refreshed
    /\ (last.op = "get_summary" /\ last.ok) =>
           TheOne(last.summary).last_refreshed = TheOne(refreshed).last_refreshed

\* a get_summary that reports a refresh made at an earlier hour
WitnessC5 ==
    /\ last.op = "get_summary"
    /\ last.pre # <<>>
    /\ TheOne(last.summary).last_refreshed # Some(clock)

----------------------------------------------------------------------------
(* The collectors called on their own, against a disk other programs write *)

Entry(utilization, resets_at) ==
    [shape |-> "dict", utilization |-> utilization, resets_at |-> resets_at]

SampleApi ==
    [kind |-> "body", windows |-> <<Entry(40, Some(203)), Absent, Entry(10, None), Absent>>]

GeminiTokens == [input |-> 20, output |-> 30, cached |-> 5, thoughts |-> 1]

SampleTmp ==
    [exists |-> TRUE,
     files |-> <<[ok |-> TRUE,
                  messages |-> <<[model |-> Some("gemini-2.5-pro"),
                                  tokens |-> Some(GeminiTokens)]>>]>>]

PlannerLine(date) == [model |-> Some("gemini-2.5-flash"), planner |-> TRUE, date |-> Some(date)]

RECURSIVE CountLines(_)
CountLines(files) ==
    IF files = <<>> THEN 0 ELSE Len(Head(files)) + CountLines(Tail(files))

DiskItems ==
    Len(statsFile.data.dailyActivity) + Len(sessions.files)
    + Len(antigravity.conv.pbs) + Len(antigravity.implicit.pbs)
    + CountLines(antigravity.daemon.logs)

\* the observation of a collector called directly
CollectCall(name, r) ==
    /\ last' = [Idle EXCEPT !.op = "collect", !.arg = name, !.ok = r.ok, !.exc = r.exc,
                            !.calls = <<name>>,
                            !.ret = IF r.ok THEN Some(r.usage) ELSE None]
    /\ UNCHANGED <<fsVars, clock, cache, refreshed>>

CollectOne == \E name \in Services : CollectCall(name, Collect(name))

\* the claude tool adds a day to dailyActivity of its stats file
AppendDay ==
    /\ DiskItems < MaxItems
    /\ \E d \in Dates :
           statsFile' = StatsWith(Append(statsFile.data.dailyActivity, Day(d, 5)))
    /\ last' = Idle
    /\ UNCHANGED <<projects, api, sessions, antigravity, clock, cache, refreshed>>

\* transcripts appear and the usage API starts to answer
InstallWindows ==
    /\ ~projects.exists
    /\ projects' = SampleProjects
    /\ api' = SampleApi
    /\ last' = Idle
    /\ UNCHANGED <<statsFile, sessions, antigravity, clock, cache, refreshed>>

\* the codex tool writes a session file under the directory of a day
NewSession ==
    /\ DiskItems < MaxItems
    /\ \E d \in Dates :
           sessions' = [exists |-> TRUE,
                        files |-> Append(sessions.files,
                                         Session(d, <<CLine("user_message")>>))]
    /\ last' = Idle
    /\ UNCHANGED <<statsFile, projects, api, antigravity, clock, cache, refreshed>>

\* antigravity stores a conversation under conversations/ or implicit/
AddPb ==
    /\ DiskItems < MaxItems
    /\ \E d \in Dates :
           \/ antigravity' = [antigravity EXCEPT
                  !.exists = TRUE,
                  !.conv = [exists |-> TRUE, pbs |-> Append(@.pbs, Pb(d, 10))]]
           \/ antigravity' = [antigravity EXCEPT
                  !.exists = TRUE,
                  !.implicit = [exists |-> TRUE, pbs |-> Append(@.pbs, Pb(d, 10))]]
    /\ last' = Idle
    /\ UNCHANGED <<statsFile, projects, api, sessions, clock, cache, refreshed>>

\* the antigravity daemon logs a planner request
AddDaemonLine ==
    /\ DiskItems < MaxItems
    /\ \E d \in Dates :
           antigravity' = [antigravity EXCEPT
               !.exists = TRUE,
               !.daemon = [exists |-> TRUE,
                           logs |-> IF @.logs = <<>> THEN <<<<PlannerLine(d)>>>>
                                    ELSE <<Append(@.logs[1], PlannerLine(d))>>]]
    /\ last' = Idle
    /\ UNCHANGED <<statsFile, projects, api, sessions, clock, cache, refreshed>>

\* the gemini CLI writes a chat session under ~/.gemini/tmp
InstallTmp ==
    /\ ~antigravity.tmp.exists
    /\ antigravity' = [antigravity EXCEPT !.tmp = SampleTmp]
    /\ last' = Idle
    /\ UNCHANGED <<statsFile, projects, api, sessions, clock, cache, refreshed>>

NextCollect ==
    \/ AppendDay
    \/ InstallWindows
    \/ NewSession
    \/ AddPb
    \/ AddDaemonLine
    \/ InstallTmp
    \/ CollectOne

SpecCollect == Init /\ [][NextCollect]_vars

----------------------------------------------------------------------------
(* Claims about what every collector returns *)

SortedNoDup(daily_usage) ==
    \A i, j \in 1..Len(daily_usage) : i < j => daily_usage[i].date < daily_usage[j].date

Collected(name) == last.op = "collect" /\ last.arg = name /\ last.ok

\* C6: the daily_usage list every collector returns is ascending by date and holds
\* no date twice.
ClaimC6 ==
    \A name \in Services : Collected(name) => SortedNoDup(TheOne(last.ret).daily_usage)

\* the part of C6 that is about codex and antigravity
SortedWhereSorted ==
    \A name \in {"codex", "antigravity"} :
        Collected(name) => SortedNoDup(TheOne(last.ret).daily_usage)

\* TRUE when the source path of the service is missing
SourceMissing(name) ==
    CASE name = "claude" -> statsFile.kind = "missing"
      [] name = "codex"  -> ~sessions.exists
      [] OTHER           -> ~antigravity.exists

EmptyFor(u, name) ==
    /\ u.service = name
    /\ u.daily_usage = <<>> /\ u.model_tokens = <<>> /\ u.rate_limits = <<>>
    /\ u.hour_counts = <<>>
    /\ u.total_messages = 0 /\ u.total_sessions = 0 /\ u.total_tokens = 0
    /\ u.first_date = None /\ u.last_date = None

\* C10: a collector whose source path is missing returns, without raising, a
\* ServiceUsage of its service with empty lists, zero totals and no dates.
ClaimC10 ==
    (last.op = "collect" /\ SourceMissing(last.arg)) =>
        /\ last.ok
        /\ last.ret # None
        /\ EmptyFor(TheOne(last.ret), last.arg)

\* antigravity collected without its base directory while ~/.gemini/tmp holds chats
WitnessC10 ==
    /\ last.op = "collect"
    /\ last.arg = "antigravity"
    /\ ~antigravity.exists
    /\ antigravity.tmp.exists

----------------------------------------------------------------------------
(* The line scans, against transcripts and sessions that hold corrupt records *)

\* transcript lines that hold the text "assistant": two entries that count and the
\* four kinds of corrupt record
TranscriptLines ==
    { TLine("ok", 198, "opus"), TLine("ok", 100, "sonnet"),
      TLine("badjson", 0, "opus"), TLine("nonobject", 0, "opus"),
      TLine("badts", 0, "opus"), TLine("naivets", 0, "opus") }

SessionLines ==
    { CLine("user_message"), [CLine("token_count") EXCEPT !.inp = 7, !.out = 3],
      CLine("session_meta"), CLine("badjson"), CLine("nonobject") }

CorruptKinds == {"badjson", "nonobject", "badts", "naivets"}

RECURSIVE FileLines(_)
FileLines(files) ==
    IF files = <<>> THEN 0 ELSE Len(Head(files).lines) + FileLines(Tail(files))

DiskLines == FileLines(projects.files) + FileLines(sessions.files)

AppendToLast(files, line) ==
    [files EXCEPT ![Len(files)].lines = Append(@, line)]

\* the claude tool has written its stats file
InstallStats ==
    /\ statsFile.kind = "missing"
    /\ statsFile' = SampleStats
    /\ last' = Idle
    /\ UNCHANGED <<projects, api, sessions, antigravity, clock, cache, refreshed>>

NewTranscript ==
    /\ Len(projects.files) < MaxFiles
    /\ projects' = [exists |-> TRUE, files |-> Append(projects.files, Transcript(<<>>))]
    /\ last' = Idle
    /\ UNCHANGED <<statsFile, api, sessions, antigravity, clock, cache, refreshed>>

AppendTranscriptLine ==
    /\ projects.files # <<>>
    /\ DiskLines < MaxLines
    /\ \E line \in TranscriptLines :
           projects' = [projects EXCEPT !.files = AppendToLast(@, line)]
    /\ last' = Idle
    /\ UNCHANGED <<statsFile, api, sessions, antigravity, clock, cache, refreshed>>

NewSessionFile ==
    /\ Len(sessions.files) < MaxFiles
    /\ sessions' = [exists |-> TRUE, files |-> Append(sessions.files, Session(1, <<>>))]
    /\ last' = Idle
    /\ UNCHANGED <<statsFile, projects, api, antigravity, clock, cache, refreshed>>

AppendSessionLine ==
    /\ sessions.files # <<>>
    /\ DiskLines < MaxLines
    /\ \E line \in SessionLines :
           sessions' = [sessions EXCEPT !.files = AppendToLast(@, line)]
    /\ last' = Idle
    /\ UNCHANGED <<statsFile, projects, api, antigravity, clock, cache, refreshed>>

NextScan ==
    \/ InstallStats
    \/ NewTranscript
    \/ AppendTranscriptLine
    \/ NewSessionFile
    \/ AppendSessionLine
    \/ CollectOne

SpecScan == Init /\ [][NextScan]_vars

\* the tree without its corrupt records
Valid(line) == line.kind \notin CorruptKinds

Cleaned(tree) ==
    [tree EXCEPT !.files =
        [i \in 1..Len(tree.files) |->
            [tree.files[i] EXCEPT !.lines = SelectSeq(@, Valid)]]]

RECURSIVE CorruptIn(_)
CorruptIn(files) ==
    IF files = <<>> THEN 0
    ELSE Len(SelectSeq(Head(files).lines, LAMBDA l : ~Valid(l))) + CorruptIn(Tail(files))

\* one corrupt record among at least two valid ones
OneCorrupt(files) == CorruptIn(files) = 1 /\ FileLines(files) >= 3

\* C7: with one corrupt record in the tree, the claude scan and the codex scan return
\* what they return for the same tree without that record: every valid record of
\* every file is counted.
ClaimC7 ==
    /\ (last.op = "collect" /\ last.arg = "claude" /\ OneCorrupt(projects.files)) =>
           /\ last.ok
           /\ Returned(TheOne(last.ret)) =
                  claude_collect(statsFile, Cleaned(projects), api, clock)
    /\ (last.op = "collect" /\ last.arg = "codex" /\ OneCorrupt(sessions.files)) =>
           /\ last.ok
           /\ Returned(TheOne(last.ret)) = codex_collect(Cleaned(sessions))

\* the part of C7 the code keeps: an invalid JSON line of a codex session is skipped
\* and every other line of every file is counted
CodexSkipsBadJson ==
    (/\ last.op = "collect" /\ last.arg = "codex"
     /\ \A i \in 1..Len(sessions.files) : \A k \in 1..Len(sessions.files[i].lines) :
            sessions.files[i].lines[k].kind # "nonobject") =>
        /\ last.ok
        /\ Returned(TheOne(last.ret)) = codex_collect(Cleaned(sessions))

----------------------------------------------------------------------------
(* The claude collector against every answer of the keychain and the usage API *)

NonDict == [shape |-> "nondict", utilization |-> 0, resets_at |-> None]

BadUtil == [shape |-> "badutil", utilization |-> 0, resets_at |-> None]

EntryValues == {Absent, NonDict, BadUtil, Entry(40, Some(203)), Entry(0, None)}

ApiValues ==
    { [kind |-> k, windows |-> <<Absent, Absent, Absent, Absent>>] :
          k \in {"nocred", "error", "nonobject"} }
    \cup [kind : {"body"}, windows : [1..Len(_API_WINDOWS) -> EntryValues]]

EmptyProjects == [exists |-> TRUE, files |-> <<>>]

\* the keychain and the usage API answer in some way
SetApi ==
    /\ \E a \in ApiValues : api' = a
    /\ last' = Idle
    /\ UNCHANGED <<statsFile, projects, sessions, antigravity, clock, cache, refreshed>>

\* the projects directory appears, with or without transcripts
SetProjects ==
    /\ \E p \in {NoProjects, EmptyProjects, SampleProjects} : projects' = p
    /\ last' = Idle
    /\ UNCHANGED <<statsFile, api, sessions, antigravity, clock, cache, refreshed>>

NextApi ==
    \/ InstallStats
    \/ SetApi
    \/ SetProjects
    \/ CollectOne

SpecApi == Init /\ [][NextApi]_vars

LocalLimits == _compute_window_usage(projects, clock).limits

RemoteLimits == _query_usage_api(api).limits

\* a collect of claude that got as far as the two window computations
ClaudeScanned ==
    /\ last.op = "collect"
    /\ last.arg = "claude"
    /\ statsFile.kind = "ok"
    /\ _compute_window_usage(projects, clock).ok

\* C8: whatever the keychain and the API answer, the remote usage query raises
\* nothing into collect, and collect reports the local windows when the query
\* returns no window.
ClaimC8 ==
    ClaudeScanned =>
        /\ last.ok
        /\ RemoteLimits = <<>> => TheOne(last.ret).rate_limits = LocalLimits

\* the part of C8 the code keeps: a failed lookup or call falls back to the local windows
FallsBackOnFailure ==
    (ClaudeScanned /\ api.kind \in {"nocred", "error"}) =>
        /\ last.ok
        /\ TheOne(last.ret).rate_limits = LocalLimits

NamesOf(limits) == {limits[i].name : i \in 1..Len(limits)}

RemoteNamed(name) == CHOOSE r \in Range(RemoteLimits) : r.name = name

\* the entry the merge owes to the local window l
MergedFrom(m, l) ==
    /\ m.name = l.name
    /\ m.window_minutes = l.window_minutes
    /\ m.used_tokens = l.used_tokens
    /\ m.model_breakdown = l.model_breakdown
    /\ IF l.name \in NamesOf(RemoteLimits)
       THEN /\ m.used_percent = RemoteNamed(l.name).used_percent
            /\ m.resets_at = RemoteNamed(l.name).resets_at
       ELSE /\ m.used_percent = l.used_percent
            /\ m.resets_at = l.resets_at

MergeHolds(merged) ==
    /\ Len(merged) >= Len(LocalLimits)
    /\ \A i \in 1..Len(LocalLimits) : MergedFrom(merged[i], LocalLimits[i])
    /\ SubSeq(merged, Len(LocalLimits) + 1, Len(merged)) =
           SelectSeq(RemoteLimits, LAMBDA r : r.name \notin NamesOf(LocalLimits))
    /\ \A i, j \in 1..Len(merged) : merged[i].name = merged[j].name => i = j

\* C9: when the remote query returns a window, rate_limits holds one entry per local
\* window, in local order, with the remote percentage and reset time where a remote
\* window of that name exists, then every remote window of another name; no name twice.
ClaimC9 ==
    (ClaudeScanned /\ last.ok /\ RemoteLimits # <<>>) =>
        MergeHolds(TheOne(last.ret).rate_limits)

\* a merge with a matched local window, an unmatched one and a remote-only window
WitnessC9 ==
    /\ ClaudeScanned /\ last.ok
    /\ \E l \in Range(LocalLimits) : l.name \in NamesOf(RemoteLimits)
    /\ \E l \in Range(LocalLimits) : l.name \notin NamesOf(RemoteLimits)
    /\ \E r \in Range(RemoteLimits) : r.name \notin NamesOf(LocalLimits)

----------------------------------------------------------------------------
(* The codex rate limits, against sessions whose token_count events carry payloads *)

\* one window of a rate_limits payload
RateWindow(used_percent, resets_at) ==
    [used_percent |-> used_percent, window_minutes |-> 300,
     resets_at |-> resets_at]

\* payload.rate_limits: two payloads that differ in every window they hold
RatePayloads ==
    { [primary |-> Some(RateWindow(10, None)), secondary |-> None],
      [primary |-> Some(RateWindow(60, Some(204))),
       secondary |-> Some(RateWindow(20, None))] }

\* entry.timestamp as it orders under string comparison; 0 is the missing timestamp
RateStamps == {0, 1, 2}

\* a token_count event with a payload (rl is Some(payload)) or without one (rl is None)
RateLine(ts, rl) == [CLine("token_count") EXCEPT !.ts = ts, !.rl = rl, !.inp = 1]

RateLines ==
    { RateLine(ts, Some(p)) : ts \in RateStamps, p \in RatePayloads }
        \cup { RateLine(2, None) }

\* codex appends a token_count event to its newest session file
AppendRateLine ==
    /\ sessions.files # <<>>
    /\ DiskLines < MaxLines
    /\ \E line \in RateLines :
           sessions' = [sessions EXCEPT !.files = AppendToLast(@, line)]
    /\ last' = Idle
    /\ UNCHANGED <<statsFile, projects, api, antigravity, clock, cache, refreshed>>

NextRate ==
    \/ NewSessionFile
    \/ AppendRateLine
    \/ CollectOne

SpecRate == Init /\ [][NextRate]_vars

\* the token_count events of all session files that carry a payload
PayloadEvents(files) ==
    { files[i].lines[k] : <<i, k>> \in
        { p \in (1..Len(files)) \X (1..MaxLines + 1) :
            /\ p[2] <= Len(files[p[1]].lines)
            /\ files[p[1]].lines[p[2]].kind = "token_count"
            /\ files[p[1]].lines[p[2]].rl # None } }

GreatestStamp(events) == SetMax({e.ts : e \in events})

CodexCollected == last.op = "collect" /\ last.arg = "codex" /\ last.ok

\* the windows reported are those of a payload event with the greatest timestamp
ReportsLatest(events) ==
    \E e \in events :
        /\ e.ts = GreatestStamp(events)
        /\ TheOne(last.ret).rate_limits = CodexRateLimits(e.rl)

\* C11: whenever a token_count event of some session file carries a rate-limit
\* payload, codex.collect reports the windows of the payload event with the greatest
\* timestamp, wherever that event stands among the files and lines.
ClaimC11 ==
    (CodexCollected /\ PayloadEvents(sessions.files) # {}) =>
        ReportsLatest(PayloadEvents(sessions.files))

\* the part of C11 the code keeps: once a payload event has a timestamp, the windows of
\* the payload event with the greatest timestamp are reported
LatestOfStamped ==
    (CodexCollected /\ \E e \in PayloadEvents(sessions.files) : e.ts > 0) =>
        ReportsLatest(PayloadEvents(sessions.files))

\* the latest payload stands before an older one and is still the one reported
LatestScannedFirst ==
    /\ CodexCollected
    /\ Len(sessions.files) = 2
    /\ Len(sessions.files[1].lines) > 0 /\ Len(sessions.files[2].lines) > 0
    /\ sessions.files[1].lines[1].rl # None /\ sessions.files[2].lines[1].rl # None
    /\ sessions.files[1].lines[1].ts > sessions.files[2].lines[1].ts
    /\ sessions.files[2].lines[1].ts > 0
    /\ sessions.files[1].lines[1].rl # sessions.files[2].lines[1].rl
    /\ TheOne(last.ret).rate_limits = CodexRateLimits(sessions.files[1].lines[1].rl)

----------------------------------------------------------------------------
(* The claude windows, against transcripts of assistant entries, as time passes *)

\* message.usage of the entries of each model
UsageOf(model) ==
    IF model = "opus" THEN TokenUse
    ELSE [inp |-> 16, out |-> 32, cache_read |-> 0, cache_create |-> 64]

\* an assistant entry with a timezone-aware timestamp
WindowEntry(ts, model) == [TLine("ok", ts, model) EXCEPT !.usage = UsageOf(model)]

WindowEntries == { WindowEntry(ts, model) : ts \in TsValues, model \in Models }

\* the claude tool appends an assistant entry to its newest transcript
AppendEntry ==
    /\ projects.files # <<>>
    /\ DiskLines < MaxLines
    /\ \E line \in WindowEntries :
           projects' = [projects EXCEPT !.files = AppendToLast(@, line)]
    /\ last' = Idle
    /\ UNCHANGED <<statsFile, api, sessions, antigravity, clock, cache, refreshed>>

NextWindow ==
    \/ InstallStats
    \/ NewTranscript
    \/ AppendEntry
    \/ Tick
    \/ CollectOne

SpecWindow == Init /\ [][NextWindow]_vars

\* every entry of every transcript, in one sequence
RECURSIVE AllEntries(_)
AllEntries(files) ==
    IF files = <<>> THEN <<>> ELSE Head(files).lines \o AllEntries(Tail(files))

\* the timestamp lies within the given number of hours before now
Within(ts, now, length) == now - length <= ts /\ ts <= now

\* the timestamp is not older than the given number of hours before now
Since(ts, now, length) == now - length <= ts

RECURSIVE TokensOf(_)
TokensOf(entries) ==
    IF entries = <<>> THEN 0
    ELSE LineTotal(Head(entries).usage) + TokensOf(Tail(entries))

OldestPlus(entries, length) ==
    IF entries = <<>> THEN None
    ELSE Some(SetMin({entries[i].ts : i \in 1..Len(entries)}) + length)

\* the window reports the tokens and the reset time of exactly the given entries
WindowOf(limit, entries, length) ==
    /\ limit.used_tokens = TokensOf(entries)
    /\ limit.resets_at = OldestPlus(entries, length)

LimitNamed(limits, name) == limits[KeyIndex([i \in 1..Len(limits) |->
                                                 [key |-> limits[i].name]], name)]

\* claude.collect returned the windows computed from an existing transcript tree
WindowsCollected ==
    /\ last.op = "collect" /\ last.arg = "claude" /\ last.ok
    /\ statsFile.kind = "ok" /\ projects.exists

FiveHourLimit == LimitNamed(TheOne(last.ret).rate_limits, "5h window")

SevenDayLimit == LimitNamed(TheOne(last.ret).rate_limits, "7d window")

\* C12: the "7d window" counts the tokens of exactly the entries whose timestamp lies
\* within the 7 days before now, the "5h window" those within the 5 hours before now; the
\* 5h tokens never exceed the 7d tokens, and resets_at is the oldest counted timestamp
\* plus the window's length, absent when nothing was counted.
ClaimC12 ==
    WindowsCollected =>
        /\ WindowOf(FiveHourLimit,
                    SelectSeq(AllEntries(projects.files),
                              LAMBDA e : Within(e.ts, clock, FiveHours)), FiveHours)
        /\ WindowOf(SevenDayLimit,
                    SelectSeq(AllEntries(projects.files),
                              LAMBDA e : Within(e.ts, clock, SevenDays)), SevenDays)
        /\ FiveHourLimit.used_tokens <= SevenDayLimit.used_tokens

\* the part of C12 the code keeps: each window counts every entry that is not older
\* than its length, entries stamped after now included
WindowsSinceCutoff ==
    WindowsCollected =>
        /\ WindowOf(FiveHourLimit,
                    SelectSeq(AllEntries(projects.files),
                              LAMBDA e : Since(e.ts, clock, FiveHours)), FiveHours)
        /\ WindowOf(SevenDayLimit,
                    SelectSeq(AllEntries(projects.files),
                              LAMBDA e : Since(e.ts, clock, SevenDays)), SevenDays)
        /\ FiveHourLimit.used_tokens <= SevenDayLimit.used_tokens

\* an entry older than 5 hours and younger than 7 days is counted in one window only
CountedInSevenDaysOnly ==
    /\ WindowsCollected
    /\ FiveHourLimit.used_tokens > 0
    /\ FiveHourLimit.used_tokens < SevenDayLimit.used_tokens
    /\ \E i \in 1..Len(AllEntries(projects.files)) :
           AllEntries(projects.files)[i].ts < clock - SevenDays

----------------------------------------------------------------------------
(* Claims about the store across failing and succeeding calls *)

\* the rows are exactly what the last committed refresh_all stored: one row for each
\* collector, in order, holding that refresh's results under that refresh's timestamp
RowsOfOneRefresh ==
    /\ refreshed # None
    /\ [i \in 1..Len(cache) |-> cache[i].service] = _COLLECTORS
    /\ [i \in 1..Len(cache) |-> model_validate_json(cache[i].data)] =
           TheOne(refreshed).services
    /\ \A i \in 1..Len(cache) : Some(cache[i].updated_at) = TheOne(refreshed).last_refreshed

\* C13: a call in which a collector raises leaves the snapshots table as it was, and
\* after any sequence of refresh_all, get_summary and get_service calls the table holds
\* no rows or one row for each of the three services, all stored by one refresh_all.
ClaimC13 ==
    /\ (last.op # "idle" /\ ~last.ok) => cache = last.pre
    /\ cache = <<>> \/ (OneRowPerService /\ RowsOfOneRefresh)

\* a refresh_all over a populated table in which a collector raised after another
\* collector's result, different from the stored one, had been inserted
WitnessC13 ==
    /\ last.op = "refresh_all"
    /\ ~last.ok
    /\ Len(last.calls) >= 2
    /\ last.pre # <<>>
    /\ Collect(_COLLECTORS[1]).ok
    /\ model_dump_json(Collect(_COLLECTORS[1]).usage) # last.pre[1].data

====
